---------------------------- MODULE Spec2Model ----------------------------
(***************************************************************************)
(* A model of badnetwork's app.py: the construction of a NetemConfig from  *)
(* a form, the rendering of the tc/iptables scripts, the preset store and  *)
(* the index request handler.                                              *)
(*                                                                         *)
(* Python strings are TLA+ strings (Len, \o and SubSeq act on them         *)
(* character by character).  A Python value that may be of any type (a     *)
(* field of a NetemConfig read back from a preset file) is a record        *)
(* [t, s, n, b, items] tagged with its type.  A Python exception is a      *)
(* result record whose "raised" field is TRUE.                             *)
(***************************************************************************)
EXTENDS Integers, Sequences, FiniteSets, TLC

VARIABLES
    form,   \* the request form handed to to_config / index
    cfg,    \* the NetemConfig an operation works on
    out,    \* what the last pure operation produced
    files,  \* PRESETS_DIR: file stem -> file content
    resp,   \* the outcome of the last request or preset-store call
    thr,    \* the threads of two concurrent save_preset calls
    saved   \* history: file stem -> the fields last stored under it

vars == <<form, cfg, out, files, resp, thr, saved>>

(***************************************************************************)
(* Bounds of the model.                                                    *)
(***************************************************************************)
MaxIfaceLen == 3
MaxNameLen == 3

(***************************************************************************)
(* Strings.                                                                *)
(***************************************************************************)
CharAt(s, i) == SubSeq(s, i, i)

CharsOf(s) == {CharAt(s, i) : i \in 1..Len(s)}

Digits == CharsOf("0123456789")

Letters == CharsOf("abcdefghijklmnopqrstuvwxyzABCDEFGHIJKLMNOPQRSTUVWXYZ")

\* str.isalnum() of one character, over ASCII
isalnum(c) == c \in Letters \cup Digits

\* the characters str.strip() removes
Whitespace == {" ", "\t", "\n", "\r"}

RECURSIVE lstrip(_)
lstrip(s) ==
    IF Len(s) > 0 /\ CharAt(s, 1) \in Whitespace
    THEN lstrip(SubSeq(s, 2, Len(s)))
    ELSE s

RECURSIVE rstrip(_)
rstrip(s) ==
    IF Len(s) > 0 /\ CharAt(s, Len(s)) \in Whitespace
    THEN rstrip(SubSeq(s, 1, Len(s) - 1))
    ELSE s

\* str.strip()
strip(s) == rstrip(lstrip(s))

\* sep.join(parts)
RECURSIVE join(_, _)
join(sep, parts) ==
    IF Len(parts) = 0 THEN ""
    ELSE IF Len(parts) = 1 THEN parts[1]
    ELSE parts[1] \o sep \o join(sep, Tail(parts))

\* str(n) of an integer
RECURSIVE NatToStr(_)
NatToStr(n) ==
    IF n < 10 THEN CharAt("0123456789", n + 1)
    ELSE NatToStr(n \div 10) \o CharAt("0123456789", (n % 10) + 1)

IntToStr(n) == IF n < 0 THEN "-" \o NatToStr(0 - n) ELSE NatToStr(n)

(***************************************************************************)
(* Python values.                                                          *)
(***************************************************************************)
PyStr(s) == [t |-> "str", s |-> s, n |-> 0, b |-> FALSE, items |-> <<>>]
PyInt(n) == [t |-> "int", s |-> "", n |-> n, b |-> FALSE, items |-> <<>>]
PyBool(b) == [t |-> "bool", s |-> "", n |-> 0, b |-> b, items |-> <<>>]
PyNone == [t |-> "none", s |-> "", n |-> 0, b |-> FALSE, items |-> <<>>]
PyList(items) == [t |-> "list", s |-> "", n |-> 0, b |-> FALSE, items |-> items]
\* a dict holds its keys and values in turn: <<k1, v1, k2, v2, ...>>
PyDict(items) == [t |-> "dict", s |-> "", n |-> 0, b |-> FALSE, items |-> items]

\* bool(v)
Truthy(v) ==
    CASE v.t = "str" -> v.s # ""
      [] v.t = "int" -> v.n # 0
      [] v.t = "bool" -> v.b
      [] v.t = "none" -> FALSE
      [] OTHER -> Len(v.items) > 0

\* repr(v); of a string without quotes, backslashes or control characters
RECURSIVE Repr(_)
RECURSIVE ReprItems(_, _)
Repr(v) ==
    CASE v.t = "str" -> "'" \o v.s \o "'"
      [] v.t = "int" -> IntToStr(v.n)
      [] v.t = "bool" -> (IF v.b THEN "True" ELSE "False")
      [] v.t = "none" -> "None"
      [] v.t = "list" -> "[" \o ReprItems(v.items, FALSE) \o "]"
      [] OTHER -> "{" \o ReprItems(v.items, TRUE) \o "}"

ReprItems(items, isDict) ==
    IF Len(items) = 0 THEN ""
    ELSE IF isDict
    THEN Repr(items[1]) \o ": " \o Repr(items[2])
         \o (IF Len(items) > 2 THEN ", " ELSE "")
         \o ReprItems(SubSeq(items, 3, Len(items)), TRUE)
    ELSE Repr(items[1])
         \o (IF Len(items) > 1 THEN ", " ELSE "")
         \o ReprItems(Tail(items), FALSE)

\* str(v), what an f-string interpolates
Format(v) == IF v.t = "str" THEN v.s ELSE Repr(v)

\* x or y
Or(x, y) == IF Truthy(x) THEN x ELSE y

(***************************************************************************)
(* NetemConfig and DEFAULTS.                                               *)
(***************************************************************************)
ValueFields ==
    <<"uplink", "downlink", "delay_ms", "jitter_ms", "loss_pct",
      "duplicate_pct", "corrupt_pct", "rate_kbit">>

FlagFields ==
    <<"delay_enabled", "jitter_enabled", "loss_enabled",
      "duplicate_enabled", "corrupt_enabled", "rate_enabled">>

\* the fields of the dataclass, in declaration order
NetemConfigFields == ValueFields \o FlagFields

FieldSet == {NetemConfigFields[i] : i \in 1..Len(NetemConfigFields)}

FlagSet == {FlagFields[i] : i \in 1..Len(FlagFields)}

DEFAULTS ==
    [uplink |-> PyStr("eth0"),
     downlink |-> PyStr("eth1"),
     delay_ms |-> PyStr("500"),
     jitter_ms |-> PyStr("100"),
     loss_pct |-> PyStr("5"),
     duplicate_pct |-> PyStr("0.1"),
     corrupt_pct |-> PyStr("0.1"),
     rate_kbit |-> PyStr("1000"),
     delay_enabled |-> PyBool(TRUE),
     jitter_enabled |-> PyBool(TRUE),
     loss_enabled |-> PyBool(TRUE),
     duplicate_enabled |-> PyBool(TRUE),
     corrupt_enabled |-> PyBool(TRUE),
     rate_enabled |-> PyBool(TRUE)]

(***************************************************************************)
(* to_config.                                                              *)
(***************************************************************************)
\* form.get(key, default), a form value being a string
FormGet(f, key, default) ==
    IF key \in DOMAIN f THEN PyStr(f[key]) ELSE default

\* a slip: the default of an empty form forgotten
parse_bool_no_default(f, key, default) == key \in DOMAIN f

parse_bool(f, key, default) ==
    IF DOMAIN f = {} THEN default ELSE key \in DOMAIN f

to_config(f) ==
    [uplink |-> Or(FormGet(f, "uplink", DEFAULTS.uplink), DEFAULTS.uplink),
     downlink |-> Or(FormGet(f, "downlink", DEFAULTS.downlink), DEFAULTS.downlink),
     delay_ms |-> FormGet(f, "delay_ms", DEFAULTS.delay_ms),
     jitter_ms |-> FormGet(f, "jitter_ms", DEFAULTS.jitter_ms),
     loss_pct |-> FormGet(f, "loss_pct", DEFAULTS.loss_pct),
     duplicate_pct |-> FormGet(f, "duplicate_pct", DEFAULTS.duplicate_pct),
     corrupt_pct |-> FormGet(f, "corrupt_pct", DEFAULTS.corrupt_pct),
     rate_kbit |-> FormGet(f, "rate_kbit", DEFAULTS.rate_kbit),
     delay_enabled |-> PyBool(parse_bool(f, "delay_enabled", TRUE)),
     jitter_enabled |-> PyBool(parse_bool(f, "jitter_enabled", TRUE)),
     loss_enabled |-> PyBool(parse_bool(f, "loss_enabled", TRUE)),
     duplicate_enabled |-> PyBool(parse_bool(f, "duplicate_enabled", TRUE)),
     corrupt_enabled |-> PyBool(parse_bool(f, "corrupt_enabled", TRUE)),
     rate_enabled |-> PyBool(parse_bool(f, "rate_enabled", TRUE))]

(***************************************************************************)
(* quote: shlex.quote of the stripped value.                               *)
(***************************************************************************)
\* the characters shlex's _find_unsafe does not match: [\w@%+=:,./-], ASCII
ShlexSafe == Letters \cup Digits \cup CharsOf("_@%+=:,./-")

\* s.replace("'", "'\"'\"'")
RECURSIVE ReplaceQuotes(_)
ReplaceQuotes(s) ==
    IF Len(s) = 0 THEN ""
    ELSE (IF CharAt(s, 1) = "'" THEN "'\"'\"'" ELSE CharAt(s, 1))
         \o ReplaceQuotes(SubSeq(s, 2, Len(s)))

shlex_quote(s) ==
    IF s = "" THEN "''"
    ELSE IF CharsOf(s) \subseteq ShlexSafe THEN s
    ELSE "'" \o ReplaceQuotes(s) \o "'"

\* a slip: the value stripped but not passed to shlex.quote
quote_unescaped(value) ==
    IF ~Truthy(value) THEN [raised |-> FALSE, text |-> ""]
    ELSE IF value.t # "str" THEN [raised |-> TRUE, text |-> "AttributeError"]
    ELSE [raised |-> FALSE, text |-> strip(value.s)]

\* quote(value): a falsy value gives "", a truthy value without a strip
\* method raises AttributeError
quote(value) ==
    IF ~Truthy(value) THEN [raised |-> FALSE, text |-> ""]
    ELSE IF value.t # "str" THEN [raised |-> TRUE, text |-> "AttributeError"]
    ELSE [raised |-> FALSE, text |-> shlex_quote(strip(value.s))]

(***************************************************************************)
(* build_netem_clause, build_command, build_reset_command.                 *)
(***************************************************************************)
\* lines 110-130: the sub-clauses of the enabled features
netem_pieces(c) ==
    LET delay == Format(Or(c.delay_ms, DEFAULTS.delay_ms))
        jitter == Format(Or(c.jitter_ms, DEFAULTS.jitter_ms))
        loss == Format(Or(c.loss_pct, DEFAULTS.loss_pct))
        duplicate == Format(Or(c.duplicate_pct, DEFAULTS.duplicate_pct))
        corrupt == Format(Or(c.corrupt_pct, DEFAULTS.corrupt_pct))
        p1 == IF Truthy(c.delay_enabled)
              THEN IF Truthy(c.jitter_enabled)
                   THEN <<"delay " \o delay \o "ms " \o jitter \o "ms distribution normal">>
                   ELSE <<"delay " \o delay \o "ms">>
              ELSE IF Truthy(c.jitter_enabled)
                   THEN <<"delay 0ms " \o jitter \o "ms distribution normal">>
                   ELSE <<>>
        p2 == IF Truthy(c.loss_enabled)
              THEN Append(p1, "loss " \o loss \o "%") ELSE p1
        p3 == IF Truthy(c.duplicate_enabled)
              THEN Append(p2, "duplicate " \o duplicate \o "%") ELSE p2
    IN IF Truthy(c.corrupt_enabled)
       THEN Append(p3, "corrupt " \o corrupt \o "%") ELSE p3

\* a slip: no "delay 0ms" when nothing is enabled
build_netem_clause_no_fallback(c) == join(" ", netem_pieces(c))

build_netem_clause(c) ==
    LET pieces == netem_pieces(c)
    IN join(" ", IF Len(pieces) = 0 THEN <<"delay 0ms">> ELSE pieces)

\* a slip: the ceiling left at the default rate
tc_section_default_ceil(c, downlink, netem_clause) ==
    LET rate == Format(Or(c.rate_kbit, DEFAULTS.rate_kbit))
    IN <<"# Reset old tc rules",
         "sudo tc qdisc del dev " \o downlink \o " root 2>/dev/null",
         "# Shape bandwidth and add netem">>
       \o (IF Truthy(c.rate_enabled)
           THEN <<"sudo tc qdisc add dev " \o downlink \o " root handle 1: htb default 10",
                  "sudo tc class add dev " \o downlink
                      \o " parent 1: classid 1:10 htb rate " \o rate
                      \o "kbit ceil " \o Format(DEFAULTS.rate_kbit) \o "kbit",
                  "sudo tc qdisc add dev " \o downlink
                      \o " parent 1:10 handle 10: netem " \o netem_clause>>
           ELSE <<"sudo tc qdisc add dev " \o downlink \o " root netem " \o netem_clause>>)

\* lines 140-155: the tc lines, downlink already quoted
tc_section(c, downlink, netem_clause) ==
    LET rate == Format(Or(c.rate_kbit, DEFAULTS.rate_kbit))
    IN <<"# Reset old tc rules",
         "sudo tc qdisc del dev " \o downlink \o " root 2>/dev/null",
         "# Shape bandwidth and add netem">>
       \o (IF Truthy(c.rate_enabled)
           THEN <<"sudo tc qdisc add dev " \o downlink \o " root handle 1: htb default 10",
                  "sudo tc class add dev " \o downlink
                      \o " parent 1: classid 1:10 htb rate " \o rate
                      \o "kbit ceil " \o rate \o "kbit",
                  "sudo tc qdisc add dev " \o downlink
                      \o " parent 1:10 handle 10: netem " \o netem_clause>>
           ELSE <<"sudo tc qdisc add dev " \o downlink \o " root netem " \o netem_clause>>)

\* lines 157-166: the forwarding and NAT lines, the names already quoted
nat_steps(uplink, downlink) ==
    <<"# Enable IPv4 forwarding",
      "sudo sysctl -w net.ipv4.ip_forward=1",
      "# NAT traffic from test network to uplink",
      "sudo iptables -t nat -F POSTROUTING",
      "sudo iptables -F FORWARD",
      "sudo iptables -t nat -A POSTROUTING -o " \o uplink \o " -j MASQUERADE",
      "sudo iptables -A FORWARD -i " \o downlink \o " -o " \o uplink
          \o " -m state --state RELATED,ESTABLISHED -j ACCEPT",
      "sudo iptables -A FORWARD -i " \o uplink \o " -o " \o downlink
          \o " -m state --state NEW -j ACCEPT">>

build_command(c) ==
    LET uplink == quote(c.uplink)
        downlink == quote(c.downlink)
    IN IF uplink.raised THEN uplink
       ELSE IF downlink.raised THEN downlink
       ELSE [raised |-> FALSE,
             text |-> join("\n", nat_steps(uplink.text, downlink.text)
                                 \o tc_section(c, downlink.text, build_netem_clause(c)))]

build_reset_command(c) ==
    LET downlink == quote(c.downlink)
    IN IF downlink.raised THEN downlink
       ELSE [raised |-> FALSE,
             text |-> join("\n",
                 <<"sudo tc qdisc del dev " \o downlink.text \o " root 2>/dev/null",
                   "sudo iptables -t nat -F POSTROUTING",
                   "sudo iptables -F FORWARD">>)]

\* no NetemConfig (yet)
NoConfig == [k \in {} |-> PyNone]

(***************************************************************************)
(* json.dump(asdict(cfg), f, ensure_ascii=False, indent=2): the text of a   *)
(* record whose values are strings, booleans, integers or None.            *)
(***************************************************************************)
\* the escapes of json.encoder.py_encode_basestring that a TLA+ string can
\* hold
RECURSIVE JsonEscape(_)
JsonEscape(s) ==
    IF Len(s) = 0 THEN ""
    ELSE LET c == CharAt(s, 1)
         IN (CASE c = "\"" -> "\\\""
               [] c = "\\" -> "\\\\"
               [] c = "\n" -> "\\n"
               [] c = "\r" -> "\\r"
               [] c = "\t" -> "\\t"
               [] OTHER -> c)
            \o JsonEscape(SubSeq(s, 2, Len(s)))

JsonScalar(v) ==
    CASE v.t = "str" -> "\"" \o JsonEscape(v.s) \o "\""
      [] v.t = "bool" -> (IF v.b THEN "true" ELSE "false")
      [] v.t = "int" -> IntToStr(v.n)
      [] v.t = "none" -> "null"

\* the fields named by keys, in that order, one member to a line
json_dumps(record, keys) ==
    IF Len(keys) = 0 THEN "{}"
    ELSE "{\n"
         \o join(",\n", [i \in 1..Len(keys) |->
                "  \"" \o keys[i] \o "\": " \o JsonScalar(record[keys[i]])])
         \o "\n}"

(***************************************************************************)
(* json.loads: the tokens of the text, then the value they spell.  Numbers *)
(* are integers; of the string escapes \b, \f and \u are not modelled.     *)
(***************************************************************************)
JsonPunctuation == {"{", "}", "[", "]", ":", ","}

JsonWordChars == Letters \cup Digits \cup {"-", "+", "."}

JsonToken(kind, text) == [k |-> kind, s |-> text]

JsonEmitWord(st) ==
    IF st.mode = "word"
    THEN Append(st.toks, JsonToken("word", st.cur))
    ELSE st.toks

JsonStep(st, c) ==
    CASE st.mode = "dead" -> st
      [] st.mode = "str" ->
            IF c = "\"" THEN [mode |-> "ws", cur |-> "",
                              toks |-> Append(st.toks, JsonToken("str", st.cur))]
            ELSE IF c = "\\" THEN [st EXCEPT !.mode = "str_esc"]
            ELSE IF c \in {"\n", "\r", "\t"} THEN [st EXCEPT !.mode = "dead"]
            ELSE [st EXCEPT !.cur = @ \o c]
      [] st.mode = "str_esc" ->
            CASE c \in {"\"", "\\", "/"} -> [st EXCEPT !.cur = @ \o c, !.mode = "str"]
              [] c = "n" -> [st EXCEPT !.cur = @ \o "\n", !.mode = "str"]
              [] c = "r" -> [st EXCEPT !.cur = @ \o "\r", !.mode = "str"]
              [] c = "t" -> [st EXCEPT !.cur = @ \o "\t", !.mode = "str"]
              [] OTHER -> [st EXCEPT !.mode = "dead"]
      [] st.mode = "word" /\ c \in JsonWordChars -> [st EXCEPT !.cur = @ \o c]
      [] OTHER ->
            LET toks == JsonEmitWord(st)
            IN IF c \in Whitespace THEN [mode |-> "ws", cur |-> "", toks |-> toks]
               ELSE IF c \in JsonPunctuation
               THEN [mode |-> "ws", cur |-> "", toks |-> Append(toks, JsonToken(c, c))]
               ELSE IF c = "\"" THEN [mode |-> "str", cur |-> "", toks |-> toks]
               ELSE IF c \in JsonWordChars /\ st.mode = "ws"
               THEN [mode |-> "word", cur |-> c, toks |-> toks]
               ELSE [mode |-> "dead", cur |-> "", toks |-> toks]

\* the text is walked by halves; the test makes the left half's state known
\* before the right half starts from it
RECURSIVE JsonFold(_, _, _, _)
JsonFold(s, lo, hi, st) ==
    IF lo > hi THEN st
    ELSE IF lo = hi THEN JsonStep(st, CharAt(s, lo))
    ELSE LET mid == (lo + hi) \div 2
             left == JsonFold(s, lo, mid, st)
         IN IF left.mode = "dead" THEN left ELSE JsonFold(s, mid + 1, hi, left)

\* the tokens of a text; a text that cannot be scanned ends in a "bad" token
JsonTokens(s) ==
    LET st == JsonFold(s, 1, Len(s), [mode |-> "ws", cur |-> "", toks |-> <<>>])
    IN IF st.mode \in {"dead", "str", "str_esc"}
       THEN Append(st.toks, JsonToken("bad", ""))
       ELSE JsonEmitWord(st)

IsJsonInt(w) ==
    LET body == IF Len(w) > 0 /\ CharAt(w, 1) = "-" THEN SubSeq(w, 2, Len(w)) ELSE w
    IN /\ Len(body) > 0
       /\ CharsOf(body) \subseteq Digits
       /\ (Len(body) > 1 => CharAt(body, 1) # "0")

DigitValue(c) == CHOOSE d \in 0..9 : CharAt("0123456789", d + 1) = c

RECURSIVE StrToNat(_)
StrToNat(w) ==
    IF Len(w) = 0 THEN 0
    ELSE 10 * StrToNat(SubSeq(w, 1, Len(w) - 1)) + DigitValue(CharAt(w, Len(w)))

StrToInt(w) ==
    IF CharAt(w, 1) = "-" THEN 0 - StrToNat(SubSeq(w, 2, Len(w))) ELSE StrToNat(w)

JsonFail(i) == [ok |-> FALSE, v |-> PyNone, i |-> i]

\* the value that starts at token i: [ok, v, i] with i the token after it
RECURSIVE JsonValue(_, _)
RECURSIVE JsonArray(_, _, _)
RECURSIVE JsonObject(_, _, _)
JsonValue(toks, i) ==
    IF i > Len(toks) THEN JsonFail(i)
    ELSE LET tok == toks[i]
         IN CASE tok.k = "str" -> [ok |-> TRUE, v |-> PyStr(tok.s), i |-> i + 1]
              [] tok.k = "word" /\ tok.s = "true" ->
                    [ok |-> TRUE, v |-> PyBool(TRUE), i |-> i + 1]
              [] tok.k = "word" /\ tok.s = "false" ->
                    [ok |-> TRUE, v |-> PyBool(FALSE), i |-> i + 1]
              [] tok.k = "word" /\ tok.s = "null" ->
                    [ok |-> TRUE, v |-> PyNone, i |-> i + 1]
              [] tok.k = "word" /\ IsJsonInt(tok.s) ->
                    [ok |-> TRUE, v |-> PyInt(StrToInt(tok.s)), i |-> i + 1]
              [] tok.k = "[" ->
                    IF i + 1 <= Len(toks) /\ toks[i + 1].k = "]"
                    THEN [ok |-> TRUE, v |-> PyList(<<>>), i |-> i + 2]
                    ELSE JsonArray(toks, i + 1, <<>>)
              [] tok.k = "{" ->
                    IF i + 1 <= Len(toks) /\ toks[i + 1].k = "}"
                    THEN [ok |-> TRUE, v |-> PyDict(<<>>), i |-> i + 2]
                    ELSE JsonObject(toks, i + 1, <<>>)
              [] OTHER -> JsonFail(i)

\* the elements of an array from token i on, items read so far
JsonArray(toks, i, items) ==
    LET e == JsonValue(toks, i)
    IN IF ~e.ok \/ e.i > Len(toks) THEN JsonFail(i)
       ELSE IF toks[e.i].k = "]"
       THEN [ok |-> TRUE, v |-> PyList(Append(items, e.v)), i |-> e.i + 1]
       ELSE IF toks[e.i].k = ","
       THEN JsonArray(toks, e.i + 1, Append(items, e.v))
       ELSE JsonFail(e.i)

\* the members of an object from token i on
JsonObject(toks, i, items) ==
    IF i + 1 > Len(toks) \/ toks[i].k # "str" \/ toks[i + 1].k # ":" THEN JsonFail(i)
    ELSE LET e == JsonValue(toks, i + 2)
             read == items \o <<PyStr(toks[i].s), e.v>>
         IN IF ~e.ok \/ e.i > Len(toks) THEN JsonFail(i)
            ELSE IF toks[e.i].k = "}"
            THEN [ok |-> TRUE, v |-> PyDict(read), i |-> e.i + 1]
            ELSE IF toks[e.i].k = ","
            THEN JsonObject(toks, e.i + 1, read)
            ELSE JsonFail(e.i)

\* json.loads(s): the value, or JSONDecodeError (also for data after it)
json_loads(s) ==
    LET toks == JsonTokens(s)
        r == JsonValue(toks, 1)
    IN IF r.ok /\ r.i = Len(toks) + 1
       THEN [raised |-> FALSE, exc |-> "", v |-> r.v]
       ELSE [raised |-> TRUE, exc |-> "JSONDecodeError", v |-> PyNone]

(***************************************************************************)
(* The preset store.                                                       *)
(***************************************************************************)
RECURSIVE KeepSafe(_)
KeepSafe(name) ==
    IF Len(name) = 0 THEN ""
    ELSE LET c == CharAt(name, 1)
         IN (IF isalnum(c) \/ c \in {"-", "_", "."} THEN c ELSE "")
            \o KeepSafe(SubSeq(name, 2, Len(name)))

\* str.strip(".")
RECURSIVE StripDots(_)
StripDots(s) ==
    IF Len(s) > 0 /\ CharAt(s, 1) = "." THEN StripDots(SubSeq(s, 2, Len(s)))
    ELSE IF Len(s) > 0 /\ CharAt(s, Len(s)) = "." THEN StripDots(SubSeq(s, 1, Len(s) - 1))
    ELSE s

\* a slip: the dots at the ends left in
sanitize_unstripped(name) == KeepSafe(name)

\* lines 79-81
sanitize_preset_name(name) == StripDots(KeepSafe(name))

\* dict lookup: the value of the last member named key
DictKeys(d) == {d.items[2 * i - 1].s : i \in 1..(Len(d.items) \div 2)}

DictGet(d, key) ==
    LET last == CHOOSE i \in 1..(Len(d.items) \div 2) :
                    /\ d.items[2 * i - 1].s = key
                    /\ \A j \in (i + 1)..(Len(d.items) \div 2) : d.items[2 * j - 1].s # key
    IN d.items[2 * last]

\* a slip: the defaults laid over the stored fields
merge_defaults_last(data) ==
    [f \in FieldSet \cup DictKeys(data) |->
        IF f \in FieldSet THEN DEFAULTS[f] ELSE DictGet(data, f)]

\* {**asdict(DEFAULTS), **data}
merge(data) ==
    [f \in FieldSet \cup DictKeys(data) |->
        IF f \in DictKeys(data) THEN DictGet(data, f) ELSE DEFAULTS[f]]

\* the messages are the source's, transliterated
MsgBadName == "Nevernoe imya preseta."
MsgSaved(safe_name) == "Sohranyon preset: " \o safe_name

\* save_preset: (status, message) and the store after the call
save_preset(name, c, store) ==
    LET safe_name == sanitize_preset_name(name)
    IN IF safe_name = ""
       THEN [status |-> 1, message |-> MsgBadName, files |-> store]
       ELSE [status |-> 0, message |-> MsgSaved(safe_name),
             files |-> [k \in DOMAIN store \cup {safe_name} |->
                          IF k = safe_name THEN json_dumps(c, NetemConfigFields)
                          ELSE store[k]]]

\* load_preset: the NetemConfig, or the exception raised
load_preset(name, store) ==
    LET safe_name == sanitize_preset_name(name)
        data == json_loads(store[safe_name])
        merged == merge(data.v)
    IN IF safe_name \notin DOMAIN store
       THEN [raised |-> TRUE, exc |-> "FileNotFoundError", cfg |-> NoConfig]
       ELSE IF data.raised
       THEN [raised |-> TRUE, exc |-> "JSONDecodeError", cfg |-> NoConfig]
       ELSE IF data.v.t # "dict" \/ ~(DOMAIN merged \subseteq FieldSet)
       THEN [raised |-> TRUE, exc |-> "TypeError", cfg |-> NoConfig]
       ELSE [raised |-> FALSE, exc |-> "", cfg |-> merged]

(***************************************************************************)
(* The renderer on its own: a configuration as to_config can build it      *)
(* (every field a string or a flag, uplink and downlink not empty), and    *)
(* one action for each of the three rendering functions.                   *)
(***************************************************************************)
RECURSIVE StringsUpTo(_, _)
StringsUpTo(alphabet, n) ==
    IF n = 0 THEN {""}
    ELSE LET shorter == StringsUpTo(alphabet, n - 1)
         IN shorter \cup {s \o c : s \in shorter, c \in alphabet}

\* a harmless character, whitespace, the quote shlex wraps with, a shell
\* metacharacter, a line break
IfaceAlphabet == {"e", " ", "'", ";", "\n"}

IfaceNames == StringsUpTo(IfaceAlphabet, MaxIfaceLen) \ {""}

\* the value of each numeric field: unset, or a value that is not the default
ValueChoices ==
    [delay_ms |-> {"", "250"},
     jitter_ms |-> {"", "30"},
     loss_pct |-> {"", "2.5"},
     duplicate_pct |-> {"", "1"},
     corrupt_pct |-> {"", "0.3"},
     rate_kbit |-> {"", "2000"}]

MakeConfig(up, down, vals, flags) ==
    [uplink |-> PyStr(up),
     downlink |-> PyStr(down),
     delay_ms |-> PyStr(vals.delay_ms),
     jitter_ms |-> PyStr(vals.jitter_ms),
     loss_pct |-> PyStr(vals.loss_pct),
     duplicate_pct |-> PyStr(vals.duplicate_pct),
     corrupt_pct |-> PyStr(vals.corrupt_pct),
     rate_kbit |-> PyStr(vals.rate_kbit),
     delay_enabled |-> PyBool(flags.delay_enabled),
     jitter_enabled |-> PyBool(flags.jitter_enabled),
     loss_enabled |-> PyBool(flags.loss_enabled),
     duplicate_enabled |-> PyBool(flags.duplicate_enabled),
     corrupt_enabled |-> PyBool(flags.corrupt_enabled),
     rate_enabled |-> PyBool(flags.rate_enabled)]

AllValues ==
    [delay_ms : ValueChoices.delay_ms, jitter_ms : ValueChoices.jitter_ms,
     loss_pct : ValueChoices.loss_pct, duplicate_pct : ValueChoices.duplicate_pct,
     corrupt_pct : ValueChoices.corrupt_pct, rate_kbit : ValueChoices.rate_kbit]

AllFlags == [FlagSet -> BOOLEAN]

SetValues == [k \in DOMAIN ValueChoices |-> CHOOSE v \in ValueChoices[k] : v # ""]

\* every combination of the six flags and of set/unset values, on the
\* default interfaces
RenderConfigs ==
    {MakeConfig("eth0", "eth1", vals, flags) : vals \in AllValues, flags \in AllFlags}

\* every pair of interface names of which one is at most one character
\* long, with and without the rate limit
QuoteConfigs ==
    {MakeConfig(up, down, SetValues, [k \in FlagSet |-> k # "rate_enabled" \/ r]) :
        up \in IfaceNames, down \in {d \in IfaceNames : Len(d) <= 1}, r \in BOOLEAN}
    \cup
    {MakeConfig(up, down, SetValues, [k \in FlagSet |-> k # "rate_enabled" \/ r]) :
        up \in {u \in IfaceNames : Len(u) <= 1}, down \in IfaceNames, r \in BOOLEAN}

NoForm == [k \in {} |-> ""]
NoOut == [op |-> "none", raised |-> FALSE, text |-> ""]
NoFiles == [k \in {} |-> ""]
NoResp == [kind |-> "none"]
NoThreads == <<>>
NoSaved == [k \in {} |-> NoConfig]

InitRender ==
    /\ cfg \in RenderConfigs
    /\ out = NoOut
    /\ form = NoForm
    /\ files = NoFiles
    /\ resp = NoResp
    /\ thr = NoThreads
    /\ saved = NoSaved

BuildNetemClause ==
    /\ out' = [op |-> "build_netem_clause", raised |-> FALSE,
               text |-> build_netem_clause(cfg)]
    /\ UNCHANGED <<form, cfg, files, resp, thr, saved>>

BuildCommand ==
    /\ out' = [op |-> "build_command"] @@ build_command(cfg)
    /\ UNCHANGED <<form, cfg, files, resp, thr, saved>>

BuildResetCommand ==
    /\ out' = [op |-> "build_reset_command"] @@ build_reset_command(cfg)
    /\ UNCHANGED <<form, cfg, files, resp, thr, saved>>

NextRender == BuildNetemClause \/ BuildCommand \/ BuildResetCommand

SpecRender == InitRender /\ [][NextRender]_vars

InitQuote ==
    /\ cfg \in QuoteConfigs
    /\ out = NoOut
    /\ form = NoForm
    /\ files = NoFiles
    /\ resp = NoResp
    /\ thr = NoThreads
    /\ saved = NoSaved

SpecQuote == InitQuote /\ [][NextRender]_vars

(***************************************************************************)
(* to_config on its own: a form as a browser or any other client can post  *)
(* it, and the one action that builds the configuration from it.           *)
(***************************************************************************)
\* what a form holds besides the six check boxes: nothing, the action
\* alone, or text fields, some of them empty
OtherFields ==
    {NoForm,
     [k \in {"action"} |-> "generate"],
     [uplink |-> "", downlink |-> "wlan1", delay_ms |-> "", rate_kbit |-> "64"]}

\* a checked box is posted as "on", an unchecked box not at all
Forms ==
    {[k \in boxes |-> "on"] @@ other : boxes \in SUBSET FlagSet, other \in OtherFields}

InitConfig ==
    /\ form \in Forms
    /\ cfg = NoConfig
    /\ out = NoOut
    /\ files = NoFiles
    /\ resp = NoResp
    /\ thr = NoThreads
    /\ saved = NoSaved

ToConfig ==
    /\ out.op = "none"
    /\ cfg' = to_config(form)
    /\ out' = [op |-> "to_config", raised |-> FALSE, text |-> ""]
    /\ UNCHANGED <<form, files, resp, thr, saved>>

NextConfig == ToConfig

SpecConfig == InitConfig /\ [][NextConfig]_vars

\* C1 as claimed: a flag whose key is present is true, and a flag whose key
\* is absent is true (its default) whatever else the form holds.
C1_AbsentFlagIsDefault ==
    out.op = "to_config" =>
        \A flag \in FlagSet :
            /\ flag \in DOMAIN form => cfg[flag] = PyBool(TRUE)
            /\ flag \notin DOMAIN form => cfg[flag] = PyBool(TRUE)

\* C1 amended: a flag whose key is present is true; a flag whose key is
\* absent is true (its default) when the form is empty and false when the
\* form holds any field at all.
C1_AbsentFlagFollowsForm ==
    out.op = "to_config" =>
        \A flag \in FlagSet :
            /\ flag \in DOMAIN form => cfg[flag] = PyBool(TRUE)
            /\ flag \notin DOMAIN form => cfg[flag] = PyBool(DOMAIN form = {})

\* a form with text fields and some of the boxes: the posted boxes are
\* true, the others false
C1_Witness ==
    /\ out.op = "to_config"
    /\ DOMAIN form = {"uplink", "downlink", "delay_ms", "rate_kbit",
                      "delay_enabled", "rate_enabled"}
    /\ cfg.delay_enabled.b /\ cfg.rate_enabled.b
    /\ ~cfg.jitter_enabled.b /\ ~cfg.loss_enabled.b
    /\ cfg.uplink = PyStr("eth0") /\ cfg.delay_ms = PyStr("")

(***************************************************************************)
(* Reading a rendered script back: str.split on one separator character,   *)
(* and the words a POSIX shell makes of a script text.  Both walk the text *)
(* by halving it, so that the depth of the evaluation stays small.         *)
(***************************************************************************)
SplitStep(st, c, sep) ==
    IF c = sep
    THEN [parts |-> Append(st.parts, st.cur), cur |-> ""]
    ELSE [st EXCEPT !.cur = @ \o c]

RECURSIVE SplitFold(_, _, _, _, _)
SplitFold(s, lo, hi, sep, st) ==
    IF lo > hi THEN st
    ELSE IF lo = hi THEN SplitStep(st, CharAt(s, lo), sep)
    ELSE LET mid == (lo + hi) \div 2
             left == SplitFold(s, lo, mid, sep, st)
         IN IF left.cur = "" \/ TRUE THEN SplitFold(s, mid + 1, hi, sep, left) ELSE st

\* s.split(sep)
split(s, sep) ==
    LET st == SplitFold(s, 1, Len(s), sep, [parts |-> <<>>, cur |-> ""])
    IN Append(st.parts, st.cur)

\* characters that end a word and are a token of their own
ShellOperators == {";", "&", "|", "(", ")", "<", ">", "\n"}

\* characters that make the shell expand or substitute when not quoted (the
\* backquote, which a TLA+ string cannot hold, is left out)
ShellExpansion == {"$", "*", "?", "[", "~", "{", "!"}

ShellFlush(st) ==
    IF st.inWord
    THEN Append(st.toks, [kind |-> "word", text |-> st.cur, active |-> st.active])
    ELSE st.toks

\* one character of the shell's lexer.  A word token carries its text after
\* quote removal and whether any of it was left open to expansion.
ShellStep(st, c) ==
    CASE st.mode = "single" ->
            IF c = "'" THEN [st EXCEPT !.mode = "plain"]
            ELSE [st EXCEPT !.cur = @ \o c]
      [] st.mode = "double" ->
            IF c = "\"" THEN [st EXCEPT !.mode = "plain"]
            ELSE IF c = "\\" THEN [st EXCEPT !.mode = "double_escape"]
            ELSE IF c = "$" THEN [st EXCEPT !.cur = @ \o c, !.active = TRUE]
            ELSE [st EXCEPT !.cur = @ \o c]
      [] st.mode = "double_escape" ->
            IF c \in {"$", "\"", "\\"}
            THEN [st EXCEPT !.cur = @ \o c, !.mode = "double"]
            ELSE [st EXCEPT !.cur = @ \o "\\" \o c, !.mode = "double"]
      [] st.mode = "escape" ->
            [st EXCEPT !.cur = @ \o c, !.inWord = TRUE, !.mode = "plain"]
      [] st.mode = "comment" /\ c # "\n" -> st
      [] OTHER ->
            IF c \in {" ", "\t"}
            THEN [mode |-> "plain", cur |-> "", inWord |-> FALSE, active |-> FALSE,
                  toks |-> ShellFlush(st)]
            ELSE IF c \in ShellOperators
            THEN [mode |-> "plain", cur |-> "", inWord |-> FALSE, active |-> FALSE,
                  toks |-> Append(ShellFlush(st),
                                  [kind |-> "op", text |-> c, active |-> TRUE])]
            ELSE IF c = "'" THEN [st EXCEPT !.mode = "single", !.inWord = TRUE]
            ELSE IF c = "\"" THEN [st EXCEPT !.mode = "double", !.inWord = TRUE]
            ELSE IF c = "\\" THEN [st EXCEPT !.mode = "escape"]
            ELSE IF c = "#" /\ ~st.inWord THEN [st EXCEPT !.mode = "comment"]
            ELSE [st EXCEPT !.cur = @ \o c, !.inWord = TRUE,
                            !.active = @ \/ c \in ShellExpansion]

RECURSIVE ShellFold(_, _, _, _)
ShellFold(s, lo, hi, st) ==
    IF lo > hi THEN st
    ELSE IF lo = hi THEN ShellStep(st, CharAt(s, lo))
    ELSE LET mid == (lo + hi) \div 2
             left == ShellFold(s, lo, mid, st)
         IN IF left.cur = "" \/ TRUE THEN ShellFold(s, mid + 1, hi, left) ELSE st

\* the tokens of a script; a quote left open ends them with an error token
ShellTokens(s) ==
    LET st == ShellFold(s, 1, Len(s),
                        [mode |-> "plain", cur |-> "", inWord |-> FALSE,
                         active |-> FALSE, toks |-> <<>>])
    IN IF st.mode \in {"single", "double", "double_escape", "escape"}
       THEN Append(st.toks, [kind |-> "error", text |-> st.cur, active |-> TRUE])
       ELSE ShellFlush(st)

(***************************************************************************)
(* C2.  The netem clause.                                                  *)
(***************************************************************************)
\* the configured value of a field, or the default when it is empty
ValueOrDefault(c, field) == IF c[field].s = "" THEN DEFAULTS[field].s ELSE c[field].s

DelayJitterWords(c) ==
    LET jitter == <<ValueOrDefault(c, "jitter_ms") \o "ms", "distribution", "normal">>
    IN IF c.delay_enabled.b
       THEN <<"delay", ValueOrDefault(c, "delay_ms") \o "ms">>
            \o (IF c.jitter_enabled.b THEN jitter ELSE <<>>)
       ELSE IF c.jitter_enabled.b THEN <<"delay", "0ms">> \o jitter ELSE <<>>

PercentWords(c, flag, word, field) ==
    IF c[flag].b THEN <<word, ValueOrDefault(c, field) \o "%">> ELSE <<>>

NoFeatureEnabled(c) ==
    \A f \in FlagSet \ {"rate_enabled"} : ~c[f].b

ExpectedClauseWords(c) ==
    IF NoFeatureEnabled(c) THEN <<"delay", "0ms">>
    ELSE DelayJitterWords(c)
         \o PercentWords(c, "loss_enabled", "loss", "loss_pct")
         \o PercentWords(c, "duplicate_enabled", "duplicate", "duplicate_pct")
         \o PercentWords(c, "corrupt_enabled", "corrupt", "corrupt_pct")

\* C2: the clause build_netem_clause returns is never empty and its words,
\* separated by single spaces, are those of exactly the enabled features in
\* the order delay/jitter, loss, duplicate, corrupt, each with its value or,
\* when that is empty, its default; "delay 0ms" when nothing is enabled.
C2_NetemClause ==
    out.op = "build_netem_clause" =>
        /\ out.text # ""
        /\ split(out.text, " ") = ExpectedClauseWords(cfg)

\* jitter without delay, loss enabled with no value, duplicate disabled with
\* a value present
C2_Witness ==
    /\ out.op = "build_netem_clause"
    /\ ~cfg.delay_enabled.b /\ cfg.jitter_enabled.b /\ cfg.jitter_ms.s = "30"
    /\ cfg.loss_enabled.b /\ cfg.loss_pct.s = ""
    /\ ~cfg.duplicate_enabled.b /\ cfg.duplicate_pct.s = "1"
    /\ ~cfg.corrupt_enabled.b
    /\ out.text = "delay 0ms 30ms distribution normal loss 5%"

(***************************************************************************)
(* C3.  The order of the command lines of the apply script.                *)
(***************************************************************************)
CommandLines(lines) == SelectSeq(lines, LAMBDA l : Len(l) = 0 \/ CharAt(l, 1) # "#")

LastLines(lines, n) == SubSeq(lines, Len(lines) - n + 1, Len(lines))

ExpectedPreamble(up, down) ==
    <<"sudo sysctl -w net.ipv4.ip_forward=1",
      "sudo iptables -t nat -F POSTROUTING",
      "sudo iptables -F FORWARD",
      "sudo iptables -t nat -A POSTROUTING -o " \o up \o " -j MASQUERADE",
      "sudo iptables -A FORWARD -i " \o down \o " -o " \o up
          \o " -m state --state RELATED,ESTABLISHED -j ACCEPT",
      "sudo iptables -A FORWARD -i " \o up \o " -o " \o down
          \o " -m state --state NEW -j ACCEPT",
      "sudo tc qdisc del dev " \o down \o " root 2>/dev/null">>

ExpectedFinal(c, down) ==
    LET rate == ValueOrDefault(c, "rate_kbit")
        clause == join(" ", ExpectedClauseWords(c))
    IN IF c.rate_enabled.b
       THEN <<"sudo tc qdisc add dev " \o down \o " root handle 1: htb default 10",
              "sudo tc class add dev " \o down \o " parent 1: classid 1:10 htb rate "
                  \o rate \o "kbit ceil " \o rate \o "kbit",
              "sudo tc qdisc add dev " \o down \o " parent 1:10 handle 10: netem "
                  \o clause>>
       ELSE <<"sudo tc qdisc add dev " \o down \o " root netem " \o clause>>

\* C3: whatever the flags and values, the command lines of build_command are
\* the forwarding, flush, MASQUERADE, FORWARD and qdisc-delete lines in that
\* order, and the script ends with the three HTB lines (rate and ceil both
\* the configured or default rate) when rate_enabled, with the single root
\* netem line otherwise.
C3_CommandOrder ==
    out.op = "build_command" =>
        LET lines == split(out.text, "\n")
            up == shlex_quote(strip(cfg.uplink.s))
            down == shlex_quote(strip(cfg.downlink.s))
            final == ExpectedFinal(cfg, down)
        IN /\ ~out.raised
           /\ CommandLines(lines) = ExpectedPreamble(up, down) \o final
           /\ LastLines(lines, Len(final)) = final

\* the rate limit enabled with no rate given: rate and ceil are the default
C3_Witness ==
    /\ out.op = "build_command"
    /\ cfg.rate_enabled.b /\ cfg.rate_kbit.s = ""
    /\ cfg.delay_enabled.b /\ cfg.delay_ms.s = "250" /\ ~cfg.jitter_enabled.b
    /\ LET lines == split(out.text, "\n")
       IN /\ Len(lines) = 14
          /\ lines[13] = "sudo tc class add dev eth1 parent 1: classid 1:10 htb rate 1000kbit ceil 1000kbit"

(***************************************************************************)
(* C4.  Interface names reach the scripts only shell-escaped.              *)
(***************************************************************************)
UplinkMark == "UPLINK"
DownlinkMark == "DOWNLINK"

\* the same script rendered for two harmless names
MarkedConfig(c) ==
    [c EXCEPT !.uplink = PyStr(UplinkMark), !.downlink = PyStr(DownlinkMark)]

\* the tokens of the marked script, each mark replaced by one literal word
PutNames(toks, up, down) ==
    [i \in 1..Len(toks) |->
        IF toks[i].kind = "word" /\ toks[i].text = UplinkMark
        THEN [kind |-> "word", text |-> up, active |-> FALSE]
        ELSE IF toks[i].kind = "word" /\ toks[i].text = DownlinkMark
        THEN [kind |-> "word", text |-> down, active |-> FALSE]
        ELSE toks[i]]

\* C4: whatever whitespace, quotes, metacharacters or line breaks uplink and
\* downlink hold, a shell reads the text of build_command and of
\* build_reset_command as the same commands as for harmless names, with
\* each interface name one literal word (the name less its surrounding
\* whitespace): no character of a name is read as shell syntax.
C4_NamesEscaped ==
    /\ out.op = "build_command" =>
        /\ ~out.raised
        /\ ShellTokens(out.text) =
            PutNames(ShellTokens(build_command(MarkedConfig(cfg)).text),
                     strip(cfg.uplink.s), strip(cfg.downlink.s))
    /\ out.op = "build_reset_command" =>
        /\ ~out.raised
        /\ ShellTokens(out.text) =
            PutNames(ShellTokens(build_reset_command(MarkedConfig(cfg)).text),
                     strip(cfg.uplink.s), strip(cfg.downlink.s))

\* an uplink with whitespace and a quote, a downlink with a metacharacter
C4_Witness ==
    /\ out.op = "build_command"
    /\ cfg.uplink.s = "e '"
    /\ cfg.downlink.s = ";"
    /\ ~out.raised

C4_WitnessReset ==
    /\ out.op = "build_reset_command"
    /\ cfg.downlink.s = "' "
    /\ out.text = "sudo tc qdisc del dev ''\"'\"'' root 2>/dev/null\nsudo iptables -t nat -F POSTROUTING\nsudo iptables -F FORWARD"

(***************************************************************************)
(* sanitize_preset_name and save_preset on a posted name.                  *)
(***************************************************************************)
\* an allowed letter and digit, the three allowed marks, a path separator
\* and a shell metacharacter
NameAlphabet == {"p", "7", ".", "-", "_", "/", ";"}

PostedNames == StringsUpTo(NameAlphabet, MaxNameLen)

\* the fields of a record that are stored, in the order asdict gives them
StoredKeys(record) == SelectSeq(NetemConfigFields, LAMBDA f : f \in DOMAIN record)

SavePreset(name, c) ==
    LET r == save_preset(name, c, files)
    IN /\ files' = r.files
       /\ resp' = [kind |-> "save_preset", name |-> name, cfg |-> c,
                   status |-> r.status, message |-> r.message, before |-> files]
       /\ saved' = IF r.status = 0
                   THEN [k \in DOMAIN saved \cup {sanitize_preset_name(name)} |->
                            IF k = sanitize_preset_name(name) THEN c ELSE saved[k]]
                   ELSE saved
       /\ UNCHANGED <<form, cfg, out, thr>>

LoadPreset(name) ==
    LET r == load_preset(name, files)
    IN /\ resp' = [kind |-> "load_preset", name |-> name, cfg |-> r.cfg,
                   raised |-> r.raised, exc |-> r.exc]
       /\ UNCHANGED <<form, cfg, out, files, thr, saved>>

SanitizePresetName ==
    /\ out.op = "none"
    /\ out' = [op |-> "sanitize_preset_name", raised |-> FALSE,
               text |-> sanitize_preset_name(form.preset_name)]
    /\ UNCHANGED <<form, cfg, files, resp, thr, saved>>

SavePosted ==
    /\ resp.kind = "none"
    /\ SavePreset(form.preset_name, cfg)

InitSanitize ==
    /\ form \in {[action |-> "save_preset", preset_name |-> n] : n \in PostedNames}
    /\ cfg = to_config(form)
    /\ out = NoOut
    /\ files \in {NoFiles, [p |-> "{}"]}
    /\ resp = NoResp
    /\ thr = NoThreads
    /\ saved = NoSaved

NextSanitize == SanitizePresetName \/ SavePosted

SpecSanitize == InitSanitize /\ [][NextSanitize]_vars

\* C9: the sanitized name holds only letters, digits, "-", "_" and "." and
\* neither starts nor ends with "."; and a name that sanitizes to nothing
\* makes save_preset return status 1 with a message and leave the store as
\* it was.
C9_SanitizedName ==
    /\ out.op = "sanitize_preset_name" =>
        /\ CharsOf(out.text) \subseteq Letters \cup Digits \cup {"-", "_", "."}
        /\ out.text # "" =>
            CharAt(out.text, 1) # "." /\ CharAt(out.text, Len(out.text)) # "."
    /\ (resp.kind = "save_preset" /\ sanitize_preset_name(resp.name) = "") =>
        /\ resp.status = 1
        /\ resp.message # ""
        /\ files = resp.before

\* a name of dots and a separator: nothing is left of it, the save is refused
C9_Witness ==
    /\ form.preset_name = "./."
    /\ out.op = "sanitize_preset_name" /\ out.text = ""
    /\ resp.kind = "save_preset" /\ resp.status = 1
    /\ files = [p |-> "{}"]

\* a name with dots around an allowed character
C9_WitnessDots ==
    /\ form.preset_name = ".p."
    /\ out.op = "sanitize_preset_name" /\ out.text = "p"
    /\ resp.kind = "save_preset" /\ resp.status = 0

(***************************************************************************)
(* The preset store over several calls: save_preset and load_preset in any *)
(* order, on a store that may hold a record written by an older version.   *)
(***************************************************************************)
PresetNames == {"p", "../p", ".p.", "old", ""}

\* configurations as to_config builds them: of an empty form, of a form
\* with quotes, backslashes and line breaks in its text, of a form with
\* empty values and no box checked
SaveConfigs ==
    {to_config(NoForm),
     to_config([uplink |-> "w\"lan\\0", downlink |-> "a b\n", delay_ms |-> "",
                jitter_ms |-> "\t7", loss_enabled |-> "on"]),
     to_config([delay_ms |-> "", jitter_ms |-> "", loss_pct |-> "",
                duplicate_pct |-> "", corrupt_pct |-> "", rate_kbit |-> ""])}

\* records that hold only some of the fields
OlderRecords ==
    {[delay_ms |-> PyStr("7"), rate_enabled |-> PyBool(FALSE)],
     [uplink |-> PyStr("wan0")],
     [k \in {} |-> PyNone]}

InitPreset ==
    /\ \/ files = NoFiles /\ saved = NoSaved
       \/ \E rec \in OlderRecords :
            /\ files = [old |-> json_dumps(rec, StoredKeys(rec))]
            /\ saved = [old |-> rec]
    /\ form = NoForm
    /\ cfg = NoConfig
    /\ out = NoOut
    /\ resp = NoResp
    /\ thr = NoThreads

NextPreset ==
    \/ \E name \in PresetNames, c \in SaveConfigs : SavePreset(name, c)
    \/ \E name \in PresetNames : LoadPreset(name)

SpecPreset == InitPreset /\ [][NextPreset]_vars

\* what loading a stored record must give: its fields, and the defaults for
\* the fields it lacks
LoadedAsStored(loaded, record) ==
    /\ ~loaded.raised
    /\ DOMAIN loaded.cfg = FieldSet
    /\ \A f \in FieldSet :
        loaded.cfg[f] = IF f \in DOMAIN record THEN record[f] ELSE DEFAULTS[f]

\* C7: as long as no other save to the name follows, load_preset of a name
\* that was saved, or of its sanitized form, returns the saved configuration
\* in all fourteen fields; a stored record that lacks fields loads with the
\* stored fields kept and the defaults for the rest.
C7_RoundTrip ==
    /\ \A stem \in DOMAIN saved :
        \A name \in {stem} \cup {n \in PresetNames : sanitize_preset_name(n) = stem} :
            LoadedAsStored(load_preset(name, files), saved[stem])
    /\ (resp.kind = "load_preset" /\ sanitize_preset_name(resp.name) \in DOMAIN saved) =>
        LoadedAsStored(resp, saved[sanitize_preset_name(resp.name)])

\* the configuration with quotes, backslashes and line breaks saved as
\* "../p" and loaded as ".p.", beside an older record of two fields
C7_Witness ==
    /\ resp.kind = "load_preset" /\ resp.name = ".p." /\ ~resp.raised
    /\ "p" \in DOMAIN saved /\ saved["p"].uplink = PyStr("w\"lan\\0")
    /\ resp.cfg.uplink = PyStr("w\"lan\\0") /\ resp.cfg.downlink = PyStr("a b\n")
    /\ ~resp.cfg.delay_enabled.b /\ resp.cfg.loss_enabled.b
    /\ "old" \in DOMAIN saved /\ DOMAIN saved["old"] = {"delay_ms", "rate_enabled"}
    /\ load_preset("old", files).cfg.delay_ms = PyStr("7")
    /\ load_preset("old", files).cfg.jitter_ms = PyStr("100")

(***************************************************************************)
(* The index handler.  One request is one step: the form is read, the      *)
(* action carried out, the preview rendered and the page built.  What the  *)
(* script does when it is run is the host's: any exit code with any        *)
(* output.                                                                 *)
(***************************************************************************)
\* run_script: the exit code and the stripped stdout + stderr of the run
run_script(script, exec) ==
    [status |-> exec.returncode, output |-> strip(exec.stdout \o exec.stderr)]

\* list_presets; the stems as a set, their order left out
list_presets(store) == DOMAIN store

\* the messages are the source's, transliterated
MsgLoaded(selected) == "Zagruzhen preset: " \o selected
MsgNotFound == "Preset ne najden."
MsgLoadError(exc) == "Oshibka zagruzki preseta: " \o exc

\* lines 228-243: the configuration after "clear"
cleared(c) ==
    [uplink |-> c.uplink, downlink |-> c.downlink,
     delay_ms |-> PyStr(""), jitter_ms |-> PyStr(""), loss_pct |-> PyStr(""),
     duplicate_pct |-> PyStr(""), corrupt_pct |-> PyStr(""), rate_kbit |-> PyStr(""),
     delay_enabled |-> PyBool(FALSE), jitter_enabled |-> PyBool(FALSE),
     loss_enabled |-> PyBool(FALSE), duplicate_enabled |-> PyBool(FALSE),
     corrupt_enabled |-> PyBool(FALSE), rate_enabled |-> PyBool(FALSE)]

\* lines 378-381 of TEMPLATE: the result area is there when last_output is
\* not empty
result_area(last_status, last_output) ==
    IF last_output # ""
    THEN [shown |-> TRUE, status |-> last_status, output |-> last_output]
    ELSE [shown |-> FALSE, status |-> 0, output |-> ""]

\* lines 205-206 and 225-226: the script is run and its result kept
ran(same, script, exec) ==
    [same EXCEPT !.status = run_script(script, exec).status,
                 !.output = run_script(script, exec).output,
                 !.ran = <<script>>]

\* lines 211-212
saved_as(same, r) ==
    [same EXCEPT !.status = r.status, !.output = r.message, !.files = r.files]

\* lines 214-223: the loaded configuration, or what the except clauses
\* report
loaded(same, r) ==
    IF ~r.raised
    THEN [same EXCEPT !.cfg = r.cfg, !.output = MsgLoaded(same.selected_preset)]
    ELSE IF r.exc = "FileNotFoundError"
    THEN [same EXCEPT !.status = 1, !.output = MsgNotFound]
    ELSE [same EXCEPT !.status = 1, !.output = MsgLoadError(r.exc)]

\* lines 203-245: the branch of the action, from same, the state of the
\* handler before it.  [cfg, status, output, ran, files, preset_name,
\* selected_preset]
dispatch(method, action, same, exec) ==
    IF method # "POST" THEN same
    ELSE CASE action = "apply" -> ran(same, build_command(same.cfg).text, exec)
           [] action = "generate" -> same
           [] action = "save_preset" ->
                 saved_as(same, save_preset(same.preset_name, same.cfg, same.files))
           [] action = "load_preset" ->
                 loaded(same, load_preset(same.selected_preset, same.files))
           [] action = "reset" -> ran(same, build_reset_command(same.cfg).text, exec)
           [] action = "clear" ->
                 [same EXCEPT !.cfg = cleared(same.cfg), !.preset_name = "",
                              !.selected_preset = ""]
           [] OTHER -> same

\* lines 247-258: the preview is built and the page rendered, unless
\* building the preview raised
render(method, action, exec, d, preview) ==
    [files |-> d.files,
     resp |-> [kind |-> IF preview.raised THEN "exception" ELSE "page",
               exc |-> IF preview.raised THEN preview.text ELSE "",
               preview_script |-> IF preview.raised THEN "" ELSE preview.text,
               result |-> IF preview.raised THEN result_area(0, "")
                          ELSE result_area(d.status, d.output),
               method |-> method, action |-> action, exec |-> exec,
               ran |-> d.ran, cfg |-> d.cfg,
               last_status |-> d.status, last_output |-> d.output,
               presets |-> list_presets(d.files),
               preset_name |-> d.preset_name,
               selected_preset |-> d.selected_preset]]

preview_of(method, action, exec, d) ==
    render(method, action, exec, d, build_command(d.cfg))

\* request.form.get of a field that is kept as text
FormText(f, key, default) == IF key \in DOMAIN f THEN f[key] ELSE default

\* lines 195-201: what the handler holds before the action
before(method, f, store) ==
    [cfg |-> to_config(IF method = "POST" THEN f ELSE NoForm),
     status |-> 0, output |-> "", ran |-> <<>>, files |-> store,
     preset_name |-> FormText(f, "preset_name", ""),
     selected_preset |-> FormText(f, "preset_select", "")]

\* index: the store after the request and the response, a page or the
\* exception that left the handler
index(method, f, store, exec) ==
    preview_of(method, FormText(f, "action", "None"), exec,
               dispatch(method, FormText(f, "action", "None"),
                        before(method, f, store), exec))

\* the forms of the page: every field posted, a checked box as "on"
FormAllOn ==
    [uplink |-> "eth0", downlink |-> "eth1", delay_ms |-> "500", jitter_ms |-> "100",
     loss_pct |-> "5", duplicate_pct |-> "0.1", corrupt_pct |-> "0.1",
     rate_kbit |-> "1000", delay_enabled |-> "on", jitter_enabled |-> "on",
     loss_enabled |-> "on", duplicate_enabled |-> "on", corrupt_enabled |-> "on",
     rate_enabled |-> "on"]

FormSome ==
    [uplink |-> "wan 0", downlink |-> "", delay_ms |-> "20", jitter_ms |-> "",
     loss_pct |-> "", duplicate_pct |-> "", corrupt_pct |-> "", rate_kbit |-> "",
     jitter_enabled |-> "on", corrupt_enabled |-> "on"]

BaseForms == {FormAllOn, FormSome}

\* what a run can give: an exit code, and nothing, blank space or text on
\* its two streams
ExecResults ==
    {[returncode |-> rc, stdout |-> o[1], stderr |-> o[2]] :
        rc \in {0, 1},
        o \in {<<"", "">>, <<"", "\n">>,
               <<"ok\n", "RTNETLINK answers: No such file or directory\n">>}}

NoExec == [returncode |-> 0, stdout |-> "", stderr |-> ""]

\* what the file of a preset may hold when it was not written by this
\* version of save_preset
StoredContents ==
    {"",
     "{\"delay_ms\": \"7\"",
     "[1]",
     "null",
     "{\"comment\": \"lab\", \"delay_ms\": \"7\"}",
     "{\"delay_ms\": 7, \"loss_pct\": 2, \"rate_kbit\": null}",
     "{\"uplink\": null, \"delay_enabled\": 0}",
     "{\"downlink\": 5}",
     "{\"downlink\": [\"eth1\"]}"}

Handle(method, f, exec) ==
    \E r \in {index(method, f, files, exec)} :
        /\ files' = r.files
        /\ resp' = r.resp
        /\ form' = f
        /\ UNCHANGED <<cfg, out, thr, saved>>

WithAction(f, action) == [k \in {"action"} |-> action] @@ f

IndexGet ==
    /\ Handle("GET", NoForm, NoExec)

IndexApply ==
    \E f \in BaseForms, exec \in ExecResults :
        /\ Handle("POST", WithAction(f, "apply"), exec)

IndexReset ==
    \E f \in BaseForms, exec \in ExecResults :
        /\ Handle("POST", WithAction(f, "reset"), exec)

IndexGenerate ==
    \E f \in BaseForms :
        /\ Handle("POST", WithAction(f, "generate"), NoExec)

IndexSavePreset ==
    \E f \in BaseForms, name \in {"p", "../"} :
        /\ Handle("POST", [k \in {"preset_name"} |-> name]
                          @@ WithAction(f, "save_preset"), NoExec)

IndexLoadPreset ==
    \E f \in BaseForms, name \in {"old", "p", "none", ""} :
        /\ Handle("POST", [k \in {"preset_select"} |-> name]
                          @@ WithAction(f, "load_preset"), NoExec)

IndexClear ==
    \E f \in BaseForms :
        /\ Handle("POST", [preset_name |-> "p", preset_select |-> "old"]
                          @@ WithAction(f, "clear"), NoExec)

\* a POST with no action, or with one the handler does not know
IndexOther ==
    \E f \in {FormAllOn, WithAction(FormSome, "delete")} :
        /\ Handle("POST", f, NoExec)

Init ==
    /\ files \in {NoFiles} \cup {[old |-> content] : content \in StoredContents}
    /\ form = NoForm
    /\ cfg = NoConfig
    /\ out = NoOut
    /\ resp = NoResp
    /\ thr = NoThreads
    /\ saved = NoSaved

Next ==
    \/ IndexGet
    \/ IndexApply
    \/ IndexReset
    \/ IndexGenerate
    \/ IndexSavePreset
    \/ IndexLoadPreset
    \/ IndexClear
    \/ IndexOther

Spec == Init /\ [][Next]_vars

Handled == resp.kind \in {"page", "exception"}

\* C5: when the script of an apply or reset request exits with a nonzero
\* code, the page shows the result area with that code and the captured
\* output, whatever the output is.
C5_FailureShown ==
    (/\ Handled
     /\ resp.action \in {"apply", "reset"}
     /\ resp.exec.returncode # 0) =>
        /\ resp.kind = "page"
        /\ resp.result.shown
        /\ resp.result.status = resp.exec.returncode
        /\ resp.result.output = strip(resp.exec.stdout \o resp.exec.stderr)

\* what does hold: a failure that printed something is shown
C5_FailureWithOutputShown ==
    (/\ Handled
     /\ resp.action \in {"apply", "reset"}
     /\ resp.exec.returncode # 0
     /\ strip(resp.exec.stdout \o resp.exec.stderr) # "") =>
        /\ resp.kind = "page"
        /\ resp.result.shown
        /\ resp.result.status = resp.exec.returncode
        /\ resp.result.output = strip(resp.exec.stdout \o resp.exec.stderr)

\* C6: whatever the file of the selected preset holds, a load_preset
\* request ends with a page, and when the record could not be loaded the
\* page reports status 1 with a message; no exception leaves the handler.
C6_LoadNeverRaises ==
    (Handled /\ resp.action = "load_preset") =>
        /\ resp.kind = "page"
        /\ load_preset(resp.selected_preset, files).raised =>
            resp.last_status = 1 /\ resp.result.shown /\ resp.result.status = 1

\* what does hold: a record that cannot be loaded is reported
C6_LoadErrorReported ==
    (/\ Handled /\ resp.action = "load_preset"
     /\ load_preset(resp.selected_preset, files).raised) =>
        /\ resp.kind = "page"
        /\ resp.last_status = 1 /\ resp.result.shown /\ resp.result.status = 1

\* C8: in every request run_script is called at most once, with the apply
\* script (the very preview of the response) on apply, with the reset
\* script on reset, and never on GET, generate, save_preset, load_preset or
\* clear; and the preview is rendered in every request.
C8_ExecutorOnlyOnApplyReset ==
    Handled =>
        /\ Len(resp.ran) <= 1
        /\ resp.ran # <<>> => resp.method = "POST" /\ resp.action \in {"apply", "reset"}
        /\ (resp.method = "POST" /\ resp.action = "apply") =>
                resp.ran = <<resp.preview_script>>
        /\ (resp.method = "POST" /\ resp.action = "reset") =>
                resp.ran = <<build_reset_command(resp.cfg).text>>
        /\ resp.kind = "page"
        /\ resp.preview_script = build_command(resp.cfg).text

\* what does hold: the same, for the requests that end with a page
C8_ExecutorOnlyOnApplyResetOfPages ==
    resp.kind = "page" =>
        /\ Len(resp.ran) <= 1
        /\ resp.ran # <<>> => resp.method = "POST" /\ resp.action \in {"apply", "reset"}
        /\ (resp.method = "POST" /\ resp.action = "apply") =>
                resp.ran = <<resp.preview_script>>
        /\ (resp.method = "POST" /\ resp.action = "reset") =>
                resp.ran = <<build_reset_command(resp.cfg).text>>
        /\ resp.preview_script = build_command(resp.cfg).text

(***************************************************************************)
(* Two save_preset calls at once.  open(path, "w") creates or empties the  *)
(* file and leaves the caller at offset 0; json.dump fills the file        *)
(* object's buffer, which a record is too small to overflow, and leaving   *)
(* the with block writes the buffer at the caller's offset and closes.     *)
(***************************************************************************)
\* data written at offset 0 over what the file holds
WriteAtStart(content, data) ==
    data \o SubSeq(content, Len(data) + 1, Len(content))

Threads == {1, 2}

\* lines 90-95
SaveOpen(t) ==
    /\ thr[t].pc = "start"
    /\ LET safe_name == sanitize_preset_name(thr[t].name)
       IN IF safe_name = ""
          THEN /\ thr' = [thr EXCEPT ![t].pc = "done", ![t].status = 1]
               /\ UNCHANGED files
          ELSE /\ thr' = [thr EXCEPT ![t].pc = "opened"]
               /\ files' = [k \in DOMAIN files \cup {safe_name} |->
                               IF k = safe_name THEN "" ELSE files[k]]
    /\ UNCHANGED <<form, cfg, out, resp, saved>>

\* lines 96-97
SaveWriteClose(t) ==
    /\ thr[t].pc = "opened"
    /\ LET safe_name == sanitize_preset_name(thr[t].name)
       IN files' = [files EXCEPT ![safe_name] =
                        WriteAtStart(@, json_dumps(thr[t].cfg, NetemConfigFields))]
    /\ thr' = [thr EXCEPT ![t].pc = "done", ![t].status = 0]
    /\ UNCHANGED <<form, cfg, out, resp, saved>>

RaceNames == {"p", "../p", ""}

\* configurations whose records differ in length, and two of one length
RaceConfigs ==
    {to_config(FormAllOn),
     to_config(FormSome),
     to_config([FormAllOn EXCEPT !.delay_ms = "5"]),
     to_config([FormAllOn EXCEPT !.delay_ms = "250"])}

InitRace ==
    /\ thr \in [Threads -> [pc : {"start"}, status : {0},
                            name : RaceNames, cfg : RaceConfigs]]
    /\ files \in {NoFiles, [p |-> "{}"]}
    /\ form = NoForm
    /\ cfg = NoConfig
    /\ out = NoOut
    /\ resp = NoResp
    /\ saved = NoSaved

NextRace == \E t \in Threads : SaveOpen(t) \/ SaveWriteClose(t)

SpecRace == InitRace /\ [][NextRace]_vars

BothSaved == \A t \in Threads : thr[t].pc = "done" /\ thr[t].status = 0

\* C10: after two concurrent save_preset calls for one sanitized name have
\* both finished, the file holds the complete record of one of them.
C10_LastWriterWins ==
    (/\ BothSaved
     /\ sanitize_preset_name(thr[1].name) = sanitize_preset_name(thr[2].name)) =>
        files[sanitize_preset_name(thr[1].name)]
            \in {json_dumps(thr[t].cfg, NetemConfigFields) : t \in Threads}

\* what does hold: a call that ran alone leaves what save_preset leaves
C10_AloneAsSavePreset ==
    \A t \in Threads :
        (thr[t].pc = "done" /\ \A u \in Threads \ {t} : thr[u].pc = "start") =>
            \E store \in {NoFiles, [p |-> "{}"]} :
                files = save_preset(thr[t].name, thr[t].cfg, store).files

=============================================================================
